---- MODULE Spec2Model ----
(***************************************************************************)
(* Instance migration sessions: the source orchestrator                    *)
(* (newMigrationSource, migrationSourceWs.Do) and the sink orchestrator    *)
(* (newMigrationSink, migrationSink.Do), with the connection layer that    *)
(* populates the channel handles running concurrently with Do.             *)
(*                                                                         *)
(* One behaviour is one session: it is constructed, channels connect,      *)
(* Do runs to its return.  `log' records, in program order, every call Do  *)
(* makes on a collaborator (callback, control send/read, dial, close).     *)
(***************************************************************************)
EXTENDS Naturals, Sequences, FiniteSets

VARIABLES
    session,    \* which constructor returned a session: "none", "source", "sink"
    pc,         \* position of the run: "new", "wait", "dialControl", ..., "done"
    s,          \* the migrationSourceWs
    c,          \* the migrationSink
    args,       \* the arguments and host environment the constructor was called with
    newErr,     \* the error the constructor returned (Nil when it returned a session)
    lookups,    \* number of exec.LookPath("criu") calls made
    nextSecret, \* state of the entropy source: the next value it hands out
    issued,     \* the secrets generated for the sessions before this one
    cbErr,      \* the error the transfer callback returned
    ret,        \* what Do returned: NotReturned, or an error (Nil for nil)
    log         \* calls made so far, in order

vars == <<session, pc, s, c, args, newErr, lookups, nextSecret, issued, cbErr, ret, log>>

-----------------------------------------------------------------------------
(* Errors.  An error is its chain of wrapped errors, outermost first; the    *)
(* text err.Error() prints is the same chain joined with ": ".  nil is <<>>. *)

Nil == <<>>

NotReturned == <<"running">>

Wrap(context, err) == <<context>> \o err

ErrTimeout == <<"Timed out waiting for migration connections">>

ErrNoLiveMigrationSource == <<"ErrNoLiveMigrationSource">>

ErrNoLiveMigrationTarget == <<"ErrNoLiveMigrationTarget">>

ErrMissingControl == <<"Missing control secret">>

ErrMissingFs == <<"Missing fs secret">>

ErrEntropy == <<"entropy source failed">>

ErrDial == <<"dial failed">>

CloseError == "websocket.CloseError"

\* What MigrateSend / MigrateReceive may return.
CallbackErrs ==
    { Nil,
      <<"transfer failed">>,
      <<CloseError>>,
      <<"read control", CloseError>> }

\* A type assertion on the error itself: a wrapped close error is missed.
HeadIsCloseError(err) == Len(err) > 0 /\ err[1] = CloseError

\* errors.As(err, &wsCloseErr): a close error anywhere in the chain.
IsCloseError(err) == \E i \in 1..Len(err) : err[i] = CloseError

-----------------------------------------------------------------------------
(* Instances and the zero values of the session structures.                  *)

Container == "container"

VM == "virtual-machine"

Instances == [type : {Container, VM}, running : BOOLEAN]

NoInstance == [type |-> "none", running |-> FALSE]

Channels == <<"control", "fs", "criu">>

ZeroFields ==
    [ instance |-> NoInstance, instanceOnly |-> FALSE, live |-> FALSE,
      allowInconsistent |-> FALSE,
      controlSecret |-> 0, fsSecret |-> 0, criuSecret |-> 0,
      controlConn |-> "nil", fsConn |-> "nil", criuConn |-> "nil" ]

ZeroSource == [ fields |-> ZeroFields, allConnected |-> "nil" ]

ZeroSink ==
    [ src |-> ZeroFields, dest |-> ZeroFields, push |-> FALSE, refresh |-> FALSE,
      allConnected |-> "nil" ]

NoArgs == [kind |-> "none"]

Conn(f, ch) ==
    CASE ch = "control" -> f.controlConn
      [] ch = "fs"      -> f.fsConn
      [] ch = "criu"    -> f.criuConn

Secret(f, ch) ==
    CASE ch = "control" -> f.controlSecret
      [] ch = "fs"      -> f.fsSecret
      [] ch = "criu"    -> f.criuSecret

SetConn(f, ch, v) ==
    CASE ch = "control" -> [f EXCEPT !.controlConn = v]
      [] ch = "fs"      -> [f EXCEPT !.fsConn = v]
      [] ch = "criu"    -> [f EXCEPT !.criuConn = v]

-----------------------------------------------------------------------------
(* shared.RandomCryptoString: the k-th call of a constructor, on an entropy  *)
(* source that hands out a value never handed out before, or fails.          *)

\* The RandomCryptoString calls one constructor makes at most.
RandCalls == 3

RandomCryptoString(env, k) ==
    IF env.randFailAt = k
    THEN [value |-> 0, err |-> ErrEntropy]
    ELSE [value |-> env.nextSecret + (k - 1), err |-> Nil]

\* A constructor's outcome: the session (a zero value when it returned nil),
\* the error, and the LookPath and RandomCryptoString calls it made.
Built(sess, nlook, nrand) == [sess |-> sess, err |-> Nil, lookups |-> nlook, rand |-> nrand]

FailedSource(err, nlook, nrand) ==
    [sess |-> ZeroSource, err |-> err, lookups |-> nlook, rand |-> nrand]

FailedSink(err, nlook, nrand) ==
    [sess |-> ZeroSink, err |-> err, lookups |-> nlook, rand |-> nrand]

-----------------------------------------------------------------------------
(* newMigrationSource                                                        *)

\* The session made live by the stateful flag alone, running or not.
newMigrationSource_LiveWhenStateful(inst, stateful, instanceOnly, allowInconsistent, env) ==
    LET ret0 == [ fields |-> [ZeroFields EXCEPT !.instance = inst,
                                               !.allowInconsistent = allowInconsistent,
                                               !.instanceOnly = instanceOnly],
                  allConnected |-> "open" ]
        r1 == RandomCryptoString(env, 1)
        r2 == RandomCryptoString(env, 2)
        r3 == RandomCryptoString(env, 3)
        ret2 == [ret0 EXCEPT !.fields.controlSecret = r1.value,
                             !.fields.fsSecret = r2.value]
        ret3 == [ret2 EXCEPT !.fields.live = TRUE]
    IN  IF r1.err # Nil THEN FailedSource(r1.err, 0, 1)
        ELSE IF r2.err # Nil THEN FailedSource(r2.err, 0, 2)
        ELSE IF stateful
             THEN IF inst.type = Container
                  THEN IF ~env.criu
                       THEN FailedSource(ErrNoLiveMigrationSource, 1, 2)
                       ELSE IF r3.err # Nil
                            THEN FailedSource(r3.err, 1, 3)
                            ELSE Built([ret3 EXCEPT !.fields.criuSecret = r3.value], 1, 3)
                  ELSE Built(ret3, 0, 2)
             ELSE Built(ret2, 0, 2)

\* The filesystem secret taken from the control secret's draw.
newMigrationSource_FsReusesControl(inst, stateful, instanceOnly, allowInconsistent, env) ==
    LET ret0 == [ fields |-> [ZeroFields EXCEPT !.instance = inst,
                                               !.allowInconsistent = allowInconsistent,
                                               !.instanceOnly = instanceOnly],
                  allConnected |-> "open" ]
        r1 == RandomCryptoString(env, 1)
        r2 == RandomCryptoString(env, 2)
        r3 == RandomCryptoString(env, 3)
        ret2 == [ret0 EXCEPT !.fields.controlSecret = r1.value,
                             !.fields.fsSecret = r1.value]
        ret3 == [ret2 EXCEPT !.fields.live = TRUE]
    IN  IF r1.err # Nil THEN FailedSource(r1.err, 0, 1)
        ELSE IF r2.err # Nil THEN FailedSource(r2.err, 0, 2)
        ELSE IF stateful /\ inst.running
             THEN IF inst.type = Container
                  THEN IF ~env.criu
                       THEN FailedSource(ErrNoLiveMigrationSource, 1, 2)
                       ELSE IF r3.err # Nil
                            THEN FailedSource(r3.err, 1, 3)
                            ELSE Built([ret3 EXCEPT !.fields.criuSecret = r3.value], 1, 3)
                  ELSE Built(ret3, 0, 2)
             ELSE Built(ret2, 0, 2)

newMigrationSource(inst, stateful, instanceOnly, allowInconsistent, env) ==
    LET ret0 == [ fields |-> [ZeroFields EXCEPT !.instance = inst,
                                               !.allowInconsistent = allowInconsistent,
                                               !.instanceOnly = instanceOnly],
                  allConnected |-> "open" ]
        r1 == RandomCryptoString(env, 1)
        r2 == RandomCryptoString(env, 2)
        r3 == RandomCryptoString(env, 3)
        ret2 == [ret0 EXCEPT !.fields.controlSecret = r1.value,
                             !.fields.fsSecret = r2.value]
        ret3 == [ret2 EXCEPT !.fields.live = TRUE]
    IN  IF r1.err # Nil THEN FailedSource(r1.err, 0, 1)
        ELSE IF r2.err # Nil THEN FailedSource(r2.err, 0, 2)
        ELSE IF stateful /\ inst.running
             THEN IF inst.type = Container
                  THEN IF ~env.criu
                       THEN FailedSource(ErrNoLiveMigrationSource, 1, 2)
                       ELSE IF r3.err # Nil
                            THEN FailedSource(r3.err, 1, 3)
                            ELSE Built([ret3 EXCEPT !.fields.criuSecret = r3.value], 1, 3)
                  ELSE Built(ret3, 0, 2)
             ELSE Built(ret2, 0, 2)

-----------------------------------------------------------------------------
(* newMigrationSink                                                          *)

\* args.Secrets: the secrets of the remote descriptor, by channel name.
RemoteSecret(ch) ==
    CASE ch = "control" -> 11
      [] ch = "fs"      -> 12
      [] ch = "criu"    -> 13

SecretMaps == { [ch \in D |-> RemoteSecret(ch)] : D \in SUBSET {"control", "fs", "criu"} }

\* The lookup that reports every key as present.
Lookup_AlwaysOk(m, k) ==
    IF k \in DOMAIN m THEN [value |-> m[k], ok |-> TRUE] ELSE [value |-> 0, ok |-> TRUE]

\* v, ok = m[k]
Lookup(m, k) ==
    IF k \in DOMAIN m THEN [value |-> m[k], ok |-> TRUE] ELSE [value |-> 0, ok |-> FALSE]

\* The check without its second branch: only a push sink is refused.
SinkCriuCheck_PushOnly(sink, env, nrand) ==
    IF sink.src.instance.type = Container
    THEN IF sink.push /\ sink.dest.live /\ ~env.criu
         THEN FailedSink(ErrNoLiveMigrationTarget, 1, nrand)
         ELSE Built(sink, 1, nrand)
    ELSE Built(sink, 0, nrand)

\* The checkpoint-tool check that ends newMigrationSink.
SinkCriuCheck(sink, env, nrand) ==
    IF sink.src.instance.type = Container
    THEN IF sink.push /\ sink.dest.live /\ ~env.criu
         THEN FailedSink(ErrNoLiveMigrationTarget, 1, nrand)
         ELSE IF sink.src.live /\ ~env.criu
              THEN FailedSink(ErrNoLiveMigrationTarget, 1, nrand)
              ELSE Built(sink, 1, nrand)
    ELSE Built(sink, 0, nrand)

newMigrationSink(a, env) ==
    LET sink0 == [ src  |-> [ZeroFields EXCEPT !.instance = a.Instance,
                                              !.instanceOnly = a.InstanceOnly],
                   dest |-> [ZeroFields EXCEPT !.instanceOnly = a.InstanceOnly],
                   push |-> a.Push, refresh |-> a.Refresh,
                   allConnected |-> IF a.Push THEN "open" ELSE "nil" ]
        r1 == RandomCryptoString(env, 1)
        r2 == RandomCryptoString(env, 2)
        r3 == RandomCryptoString(env, 3)
        push2 == [sink0 EXCEPT !.dest.controlSecret = r1.value,
                               !.dest.fsSecret = r2.value,
                               !.dest.live = a.Live]
        control == Lookup(a.Secrets, "control")
        fs == Lookup(a.Secrets, "fs")
        criu == Lookup(a.Secrets, "criu")
        pull == [sink0 EXCEPT !.src.controlSecret = control.value,
                              !.src.fsSecret = fs.value,
                              !.src.criuSecret = criu.value,
                              !.src.live = criu.ok \/ a.Live]
    IN  IF sink0.push
        THEN IF r1.err # Nil THEN FailedSink(r1.err, 0, 1)
             ELSE IF r2.err # Nil THEN FailedSink(r2.err, 0, 2)
             ELSE IF push2.dest.live
                  THEN IF r3.err # Nil
                       THEN FailedSink(r3.err, 0, 3)
                       ELSE SinkCriuCheck([push2 EXCEPT !.dest.criuSecret = r3.value], env, 3)
                  ELSE SinkCriuCheck(push2, env, 2)
        ELSE IF ~control.ok THEN FailedSink(ErrMissingControl, 0, 0)
             ELSE IF ~fs.ok THEN FailedSink(ErrMissingFs, 0, 0)
             ELSE SinkCriuCheck(pull, env, 0)

-----------------------------------------------------------------------------
(* The state after the daemon starts: no session yet.                        *)

Init ==
    /\ session = "none"
    /\ pc = "new"
    /\ s = ZeroSource
    /\ c = ZeroSink
    /\ args = NoArgs
    /\ newErr = Nil
    /\ lookups = 0
    /\ nextSecret = 1
    /\ issued = {}
    /\ cbErr = Nil
    /\ ret = NotReturned
    /\ log = <<>>

\* The host environment a constructor runs in.
Envs == [criu : BOOLEAN, randFailAt : 0..RandCalls, nextSecret : {nextSecret}]

NewMigrationSource ==
    /\ pc = "new"
    /\ \E inst \in Instances, stateful \in BOOLEAN, instanceOnly \in BOOLEAN,
          allowInconsistent \in BOOLEAN, env \in Envs :
          LET r == newMigrationSource(inst, stateful, instanceOnly, allowInconsistent, env)
          IN  /\ args' = [kind |-> "source", inst |-> inst, stateful |-> stateful,
                          instanceOnly |-> instanceOnly,
                          allowInconsistent |-> allowInconsistent, env |-> env]
              /\ newErr' = r.err
              /\ session' = IF r.err = Nil THEN "source" ELSE "none"
              /\ s' = r.sess
              /\ lookups' = lookups + r.lookups
              /\ nextSecret' = nextSecret + r.rand
              /\ pc' = IF r.err = Nil THEN "wait" ELSE "rejected"
    /\ UNCHANGED <<c, issued, cbErr, ret, log>>

SinkArgs ==
    [Instance : Instances, InstanceOnly : BOOLEAN, Push : BOOLEAN, Live : BOOLEAN,
     Refresh : BOOLEAN, Secrets : SecretMaps]

NewMigrationSink ==
    /\ pc = "new"
    /\ \E a \in SinkArgs, env \in Envs :
          LET r == newMigrationSink(a, env)
          IN  /\ args' = [kind |-> "sink", a |-> a, env |-> env]
              /\ newErr' = r.err
              /\ session' = IF r.err = Nil THEN "sink" ELSE "none"
              /\ c' = r.sess
              /\ lookups' = lookups + r.lookups
              /\ nextSecret' = nextSecret + r.rand
              /\ pc' = IF r.err # Nil THEN "rejected"
                       ELSE IF r.sess.push THEN "wait" ELSE "dialControl"
    /\ UNCHANGED <<s, issued, cbErr, ret, log>>

-----------------------------------------------------------------------------
(* The helpers of migrationFields that Do calls.                             *)

\* disconnect(): every channel that is open is closed.
Closed(conn) == IF conn = "open" THEN "closed" ELSE conn

Disconnected(f) ==
    [f EXCEPT !.controlConn = Closed(@), !.fsConn = Closed(@), !.criuConn = Closed(@)]

OpenChannels(f) == SelectSeq(Channels, LAMBDA ch : Conn(f, ch) = "open")

CloseEvents(f, on) ==
    [i \in 1..Len(OpenChannels(f)) |-> [ev |-> "close", on |-> on, ch |-> OpenChannels(f)[i]]]

\* send(msg): fails without a control connection, otherwise as the write does.
SendOk(f, io) == f.controlConn = "open" /\ io

SendEvent(f, on, msg, io) ==
    [ev |-> "send", on |-> on, msg |-> msg, conn |-> f.controlConn, ok |-> SendOk(f, io)]

\* sendControl(err): a control message reporting err, if there is a control connection.
SendControlEvents(f, on, err, io) ==
    IF f.controlConn # "nil"
    THEN <<SendEvent(f, on, [Success |-> (err = Nil), Message |-> err], io)>>
    ELSE <<>>

\* The channels a passive session waits for.
Required(f) ==
    IF f.instance.type = Container /\ f.live
    THEN {"control", "fs", "criu"}
    ELSE {"control", "fs"}

AllConnected(f) == \A ch \in Required(f) : Conn(f, ch) # "nil"

ReturnEvent(err) == [ev |-> "return", err |-> err]

-----------------------------------------------------------------------------
(* The connection layer: an inbound connection presenting a channel's secret *)
(* populates that channel's handle, once; the connection that completes the  *)
(* required channels fires the all-connected signal.                         *)

SourceConnect ==
    /\ session = "source"
    /\ pc # "done"
    /\ \E ch \in {"control", "fs", "criu"} :
          /\ Secret(s.fields, ch) # 0
          /\ Conn(s.fields, ch) = "nil"
          /\ LET f == SetConn(s.fields, ch, "open")
                 fire == s.allConnected = "open" /\ AllConnected(f)
             IN  /\ s' = [s EXCEPT !.fields = f,
                                   !.allConnected = IF fire THEN "closed" ELSE @]
                 /\ log' = log \o <<[ev |-> "Connect", ch |-> ch]>>
                               \o (IF fire THEN <<[ev |-> "signal"]>> ELSE <<>>)
    /\ UNCHANGED <<session, pc, c, args, newErr, lookups, nextSecret, issued, cbErr, ret>>

SinkConnect ==
    /\ session = "sink"
    /\ c.push
    /\ pc # "done"
    /\ \E ch \in {"control", "fs", "criu"} :
          /\ Secret(c.dest, ch) # 0
          /\ Conn(c.dest, ch) = "nil"
          /\ LET f == SetConn([c.dest EXCEPT !.instance = c.src.instance], ch, "open")
                 fire == c.allConnected = "open" /\ AllConnected(f)
             IN  /\ c' = [c EXCEPT !.dest = SetConn(@, ch, "open"),
                                   !.allConnected = IF fire THEN "closed" ELSE @]
                 /\ log' = log \o <<[ev |-> "Connect", ch |-> ch]>>
                               \o (IF fire THEN <<[ev |-> "signal"]>> ELSE <<>>)
    /\ UNCHANGED <<session, pc, s, args, newErr, lookups, nextSecret, issued, cbErr, ret>>

-----------------------------------------------------------------------------
(* migrationSourceWs.Do                                                      *)

\* The select without its timer case: only the signal ends the wait.
SourceWaitTimeout_NoTimer ==
    /\ session = "source"
    /\ pc = "wait"
    /\ FALSE
    /\ UNCHANGED vars

\* The timeout case without its return: Do goes on to the transfer.
SourceWaitTimeout_FallsThrough ==
    /\ session = "source"
    /\ pc = "wait"
    /\ pc' = "migrate"
    /\ log' = log \o <<[ev |-> "timeout"]>>
    /\ UNCHANGED <<session, s, c, args, newErr, lookups, nextSecret, issued, cbErr, ret>>

\* select: the 10 second timer fired.
SourceWaitTimeout ==
    /\ session = "source"
    /\ pc = "wait"
    /\ ret' = ErrTimeout
    /\ pc' = "done"
    /\ log' = log \o <<[ev |-> "timeout"], ReturnEvent(ErrTimeout)>>
    /\ UNCHANGED <<session, s, c, args, newErr, lookups, nextSecret, issued, cbErr>>

\* Do going on to the transfer without waiting for the signal.
SourceWaitConnected_NoWait ==
    /\ session = "source"
    /\ pc = "wait"
    /\ pc' = "migrate"
    /\ log' = log \o <<[ev |-> "connected"]>>
    /\ UNCHANGED <<session, s, c, args, newErr, lookups, nextSecret, issued, cbErr, ret>>

\* select: allConnected was closed.
SourceWaitConnected ==
    /\ session = "source"
    /\ pc = "wait"
    /\ s.allConnected = "closed"
    /\ pc' = "migrate"
    /\ log' = log \o <<[ev |-> "connected"]>>
    /\ UNCHANGED <<session, s, c, args, newErr, lookups, nextSecret, issued, cbErr, ret>>

\* A return after `defer s.disconnect()': the events `pre', the disconnect, the return.
SourceReturn(pre, err) ==
    /\ s' = [s EXCEPT !.fields = Disconnected(@)]
    /\ log' = log \o pre \o CloseEvents(s.fields, "source") \o <<ReturnEvent(err)>>
    /\ ret' = err
    /\ pc' = "done"

\* Snapshots set to instanceOnly, not to its negation.
MigrateSendArgs_SnapshotsInstanceOnly ==
    [ ControlSend |-> "source", ControlReceive |-> "source",
      LiveConn |-> s.fields.criuConn, DataConn |-> s.fields.fsConn,
      Snapshots |-> s.fields.instanceOnly, Live |-> s.fields.live,
      AllowInconsistent |-> s.fields.allowInconsistent ]

MigrateSendArgs ==
    [ ControlSend |-> "source", ControlReceive |-> "source",
      LiveConn |-> s.fields.criuConn, DataConn |-> s.fields.fsConn,
      Snapshots |-> ~s.fields.instanceOnly, Live |-> s.fields.live,
      AllowInconsistent |-> s.fields.allowInconsistent ]

\* SetOperation, then the transfer callback runs and returns.
SourceMigrateSend ==
    /\ session = "source"
    /\ pc = "migrate"
    /\ \E err \in CallbackErrs :
          LET calls == << [ev |-> "SetOperation"],
                          [ev |-> "MigrateSend", args |-> MigrateSendArgs, err |-> err] >>
          IN  /\ cbErr' = err
              /\ IF err # Nil
                 THEN /\ pc' = "notify"
                      /\ log' = log \o calls
                      /\ UNCHANGED <<s, ret>>
                 ELSE SourceReturn(calls, Nil)
    /\ UNCHANGED <<session, c, args, newErr, lookups, nextSecret, issued>>

\* The test of the close error inverted: only a closed peer is told.
SourceNotify_Inverted ==
    /\ session = "source"
    /\ pc = "notify"
    /\ IF IsCloseError(cbErr)
       THEN \E io \in BOOLEAN :
               LET msg == [Success |-> (cbErr = Nil), Message |-> cbErr]
                   sent == SendEvent(s.fields, "source", msg, io)
               IN  IF ~sent.ok
                   THEN SourceReturn(<<sent>>, Wrap("Failed migration on source", cbErr))
                   ELSE /\ pc' = "ack"
                        /\ log' = log \o <<sent>>
                        /\ UNCHANGED <<s, ret>>
       ELSE SourceReturn(<<>>, Wrap("Failed migration on source", cbErr))
    /\ UNCHANGED <<session, c, args, newErr, lookups, nextSecret, issued, cbErr>>

\* The callback failed: unless the peer closed the connection, tell it why.
SourceNotify ==
    /\ session = "source"
    /\ pc = "notify"
    /\ IF ~IsCloseError(cbErr)
       THEN \E io \in BOOLEAN :
               LET msg == [Success |-> (cbErr = Nil), Message |-> cbErr]
                   sent == SendEvent(s.fields, "source", msg, io)
               IN  IF ~sent.ok
                   THEN SourceReturn(<<sent>>, Wrap("Failed migration on source", cbErr))
                   ELSE /\ pc' = "ack"
                        /\ log' = log \o <<sent>>
                        /\ UNCHANGED <<s, ret>>
       ELSE SourceReturn(<<>>, Wrap("Failed migration on source", cbErr))
    /\ UNCHANGED <<session, c, args, newErr, lookups, nextSecret, issued, cbErr>>

\* The read's failure returned in place of the transfer error.
SourceAck_ReturnsReadError ==
    /\ session = "source"
    /\ pc = "ack"
    /\ \E outcome \in {"message", "error", "timeout"} :
          SourceReturn(<<[ev |-> "read", on |-> "source", outcome |-> outcome]>>,
                       IF outcome = "message"
                       THEN Wrap("Failed migration on source", cbErr)
                       ELSE Wrap("Failed migration on source", <<"read " \o outcome>>))
    /\ UNCHANGED <<session, c, args, newErr, lookups, nextSecret, issued, cbErr>>

\* The read of the acknowledgment, under its 5 second deadline; its result is dropped.
SourceAck ==
    /\ session = "source"
    /\ pc = "ack"
    /\ \E outcome \in {"message", "error", "timeout"} :
          SourceReturn(<<[ev |-> "read", on |-> "source", outcome |-> outcome]>>,
                       Wrap("Failed migration on source", cbErr))
    /\ UNCHANGED <<session, c, args, newErr, lookups, nextSecret, issued, cbErr>>

-----------------------------------------------------------------------------
(* migrationSink.Do                                                          *)

\* The liveness of src, whatever the mode.
SinkLive_Src == c.src.live

\* live := c.src.live; if c.push { live = c.dest.live }
SinkLive == IF c.push THEN c.dest.live ELSE c.src.live

\* select (push mode): the 10 second timer fired.
SinkWaitTimeout ==
    /\ session = "sink"
    /\ pc = "wait"
    /\ c.push
    /\ ret' = ErrTimeout
    /\ pc' = "done"
    /\ log' = log \o <<[ev |-> "timeout"], ReturnEvent(ErrTimeout)>>
    /\ UNCHANGED <<session, s, c, args, newErr, lookups, nextSecret, issued, cbErr>>

\* select (push mode): allConnected was closed.
SinkWaitConnected ==
    /\ session = "sink"
    /\ pc = "wait"
    /\ c.push
    /\ c.allConnected = "closed"
    /\ pc' = "receive"
    /\ log' = log \o <<[ev |-> "connected"]>>
    /\ UNCHANGED <<session, s, c, args, newErr, lookups, nextSecret, issued, cbErr, ret>>

\* connectWithSecret(secret), as the event Do's log keeps of it.
DialEvent(ch, ok) ==
    [ev |-> "dial", ch |-> ch, secret |-> Secret(c.src, ch), ok |-> ok]

\* A return after `defer c.src.disconnect()' (pull) or `defer c.dest.disconnect()' (push),
\* from the session `sink' Do has built so far.
SinkReturn(sink, pre, err) ==
    /\ c' = IF sink.push
            THEN [sink EXCEPT !.dest = Disconnected(@)]
            ELSE [sink EXCEPT !.src = Disconnected(@)]
    /\ log' = log \o pre
                  \o (IF sink.push THEN CloseEvents(sink.dest, "dest")
                                   ELSE CloseEvents(sink.src, "src"))
                  \o <<ReturnEvent(err)>>
    /\ ret' = err
    /\ pc' = "done"

SinkDialControl ==
    /\ session = "sink"
    /\ pc = "dialControl"
    /\ ~c.push
    /\ \E ok \in BOOLEAN :
          IF ok
          THEN /\ c' = [c EXCEPT !.src.controlConn = "open"]
               /\ pc' = "dialFs"
               /\ log' = log \o <<DialEvent("control", TRUE)>>
               /\ ret' = ret
          ELSE /\ ret' = Wrap("Failed connecting control sink socket", ErrDial)
               /\ pc' = "done"
               /\ log' = log \o <<DialEvent("control", FALSE), ReturnEvent(ret')>>
               /\ c' = c
    /\ UNCHANGED <<session, s, args, newErr, lookups, nextSecret, issued, cbErr>>

\* The filesystem dial that reports no failure to the peer.
SinkDialFs_NoNotify ==
    /\ session = "sink"
    /\ pc = "dialFs"
    /\ \E ok \in BOOLEAN, io \in BOOLEAN :
          IF ok
          THEN /\ c' = [c EXCEPT !.src.fsConn = "open"]
               /\ pc' = IF c.src.live /\ c.src.instance.type = Container
                        THEN "dialCriu" ELSE "receive"
               /\ log' = log \o <<DialEvent("fs", TRUE)>>
               /\ ret' = ret
          ELSE LET err == Wrap("Failed connecting filesystem sink socket", ErrDial)
               IN  SinkReturn(c, <<DialEvent("fs", FALSE)>>, err)
    /\ UNCHANGED <<session, s, args, newErr, lookups, nextSecret, issued, cbErr>>

\* The filesystem dial that goes on to the live-state dial whatever the session is.
SinkDialFs_AlwaysCriu ==
    /\ session = "sink"
    /\ pc = "dialFs"
    /\ \E ok \in BOOLEAN, io \in BOOLEAN :
          IF ok
          THEN /\ c' = [c EXCEPT !.src.fsConn = "open"]
               /\ pc' = "dialCriu"
               /\ log' = log \o <<DialEvent("fs", TRUE)>>
               /\ ret' = ret
          ELSE LET err == Wrap("Failed connecting filesystem sink socket", ErrDial)
               IN  SinkReturn(c, <<DialEvent("fs", FALSE)>>
                                    \o SendControlEvents(c.src, "src", err, io), err)
    /\ UNCHANGED <<session, s, args, newErr, lookups, nextSecret, issued, cbErr>>

SinkDialFs ==
    /\ session = "sink"
    /\ pc = "dialFs"
    /\ \E ok \in BOOLEAN, io \in BOOLEAN :
          IF ok
          THEN /\ c' = [c EXCEPT !.src.fsConn = "open"]
               /\ pc' = IF c.src.live /\ c.src.instance.type = Container
                        THEN "dialCriu" ELSE "receive"
               /\ log' = log \o <<DialEvent("fs", TRUE)>>
               /\ ret' = ret
          ELSE LET err == Wrap("Failed connecting filesystem sink socket", ErrDial)
               IN  SinkReturn(c, <<DialEvent("fs", FALSE)>>
                                    \o SendControlEvents(c.src, "src", err, io), err)
    /\ UNCHANGED <<session, s, args, newErr, lookups, nextSecret, issued, cbErr>>

SinkDialCriu ==
    /\ session = "sink"
    /\ pc = "dialCriu"
    /\ \E ok \in BOOLEAN, io \in BOOLEAN :
          IF ok
          THEN /\ c' = [c EXCEPT !.src.criuConn = "open"]
               /\ pc' = "receive"
               /\ log' = log \o <<DialEvent("criu", TRUE)>>
               /\ ret' = ret
          ELSE LET err == Wrap("Failed connecting CRIU sink socket", ErrDial)
               IN  SinkReturn(c, <<DialEvent("criu", FALSE)>>
                                    \o SendControlEvents(c.src, "src", err, io), err)
    /\ UNCHANGED <<session, s, args, newErr, lookups, nextSecret, issued, cbErr>>

\* The arguments without the push override: always src's.
MigrateReceiveArgs_AlwaysSrc ==
    [ ControlSend |-> "src", ControlReceive |-> "src",
      LiveConn |-> c.src.criuConn, DataConn |-> c.src.fsConn,
      LiveSide |-> "src",
      Snapshots |-> ~c.dest.instanceOnly, Live |-> SinkLive,
      Refresh |-> c.refresh ]

MigrateReceiveArgs ==
    [ ControlSend |-> IF c.push THEN "dest" ELSE "src",
      ControlReceive |-> IF c.push THEN "dest" ELSE "src",
      LiveConn |-> IF c.push THEN c.dest.criuConn ELSE c.src.criuConn,
      DataConn |-> IF c.push THEN c.dest.fsConn ELSE c.src.fsConn,
      LiveSide |-> IF c.push THEN "dest" ELSE "src",
      Snapshots |-> ~c.dest.instanceOnly, Live |-> SinkLive,
      Refresh |-> c.refresh ]

\* The callback's error logged and dropped: Do returns nil.
SinkMigrateReceive_SwallowsError ==
    /\ session = "sink"
    /\ pc = "receive"
    /\ \E err \in CallbackErrs :
          /\ cbErr' = err
          /\ SinkReturn(c, <<[ev |-> "MigrateReceive", args |-> MigrateReceiveArgs,
                              err |-> err]>>, Nil)
    /\ UNCHANGED <<session, s, args, newErr, lookups, nextSecret, issued>>

\* The receive callback runs and returns; Do returns its result.
SinkMigrateReceive ==
    /\ session = "sink"
    /\ pc = "receive"
    /\ \E err \in CallbackErrs :
          /\ cbErr' = err
          /\ SinkReturn(c, <<[ev |-> "MigrateReceive", args |-> MigrateReceiveArgs,
                              err |-> err]>>,
                        IF err # Nil THEN Wrap("Failed migration on target", err) ELSE Nil)
    /\ UNCHANGED <<session, s, args, newErr, lookups, nextSecret, issued>>

-----------------------------------------------------------------------------
Construct == NewMigrationSource \/ NewMigrationSink

Connect == SourceConnect \/ SinkConnect

SourceDo ==
    \/ SourceWaitTimeout
    \/ SourceWaitConnected
    \/ SourceMigrateSend
    \/ SourceNotify
    \/ SourceAck

SinkDo ==
    \/ SinkWaitTimeout
    \/ SinkWaitConnected
    \/ SinkDialControl
    \/ SinkDialFs
    \/ SinkDialCriu
    \/ SinkMigrateReceive

Next == Construct \/ Connect \/ SourceDo \/ SinkDo

Spec == Init /\ [][Next]_vars

\* Do is a running goroutine: a step it can take, it takes.
FairSpec == Spec /\ WF_vars(SourceDo) /\ WF_vars(SinkDo)

-----------------------------------------------------------------------------
(* Sessions one after another on the same host: when a session is over (its  *)
(* constructor refused it, or its Do returned) the next one starts from      *)
(* fresh structures; only the entropy source keeps its state.                *)

\* The entropy source's values the model lets earlier sessions use up.
MaxIssued == 3

\* The secrets the constructor generated for the session (none for a pull sink).
Generated ==
    CASE session = "source" ->
            {s.fields.controlSecret, s.fields.fsSecret, s.fields.criuSecret} \ {0}
      [] session = "sink" /\ c.push ->
            {c.dest.controlSecret, c.dest.fsSecret, c.dest.criuSecret} \ {0}
      [] OTHER -> {}

NextSession ==
    /\ pc \in {"done", "rejected"}
    /\ nextSecret <= MaxIssued
    /\ issued' = issued \cup Generated
    /\ session' = "none"
    /\ pc' = "new"
    /\ s' = ZeroSource
    /\ c' = ZeroSink
    /\ args' = NoArgs
    /\ newErr' = Nil
    /\ lookups' = 0
    /\ cbErr' = Nil
    /\ ret' = NotReturned
    /\ log' = <<>>
    /\ UNCHANGED nextSecret

SessionsNext == Next \/ NextSession

SessionsSpec == Init /\ [][SessionsNext]_vars

-----------------------------------------------------------------------------
(* Reading the log.                                                          *)

Events(ev) == { i \in DOMAIN log : log[i].ev = ev }

Has(ev) == Events(ev) # {}

Returned == pc = "done"

\* A session that waits for inbound connections: a source, or a sink in push mode.
Passive == session = "source" \/ (session = "sink" /\ c.push)

Callbacks == Events("MigrateSend") \cup Events("MigrateReceive")

-----------------------------------------------------------------------------
(* C1: in a passive session (a source, a sink in push mode) whose            *)
(* all-connected signal never fires, Do returns the "Timed out waiting for   *)
(* migration connections" error; a run that returned it never invoked the    *)
(* transfer callback nor marked the instance, and nothing follows the        *)
(* timeout: the wait is not retried.                                         *)
C1_TimeoutTerminal ==
    /\ [](ret = ErrTimeout =>
            /\ Passive /\ Returned
            /\ Callbacks = {} /\ ~Has("SetOperation")
            /\ Cardinality(Events("timeout")) = 1)
    /\ []((Passive /\ Returned /\ ~Has("signal")) => ret = ErrTimeout)
    /\ [][ret = ErrTimeout => UNCHANGED vars]_vars
    /\ []((Passive /\ [](~Has("signal"))) => <>(ret = ErrTimeout))

\* Some channels connected, the signal did not fire, Do timed out.
C1_Witness ==
    /\ Passive /\ ret = ErrTimeout
    /\ Has("Connect") /\ ~Has("signal")

(* C2: whenever the source's Do has returned, no channel of the session      *)
(* that was populated is still open.                                         *)
C2_SourceReturnClosesChannels ==
    (session = "source" /\ Returned) =>
        \A ch \in {"control", "fs", "criu"} : Conn(s.fields, ch) # "open"

(* C3: whenever the sink's Do has returned, in either mode, no channel the   *)
(* sink owns (dest in push mode, src in pull mode) is still open.            *)
C3_SinkReturnClosesChannels ==
    (session = "sink" /\ Returned) =>
        \A ch \in {"control", "fs", "criu"} :
            Conn(c.src, ch) # "open" /\ Conn(c.dest, ch) # "open"


\* The control messages Do itself sent, and its reads of the control channel.
Sends == Events("send")

Reads == Events("read")

Closes == Events("close")

SourceFailed == session = "source" /\ cbErr # Nil

SourceError == Wrap("Failed migration on source", cbErr)

\* The callback's error is a clean remote close: its chain holds a close error.
CleanClose == \E i \in DOMAIN cbErr : cbErr[i] = "websocket.CloseError"

(* C4: on the source, once the transfer callback has returned an error that  *)
(* is no close error and Do has gone past the notification, exactly one      *)
(* control message was sent, with success=false and the error's text, on the *)
(* still open control channel: the send, and the read of the acknowledgment  *)
(* if there is one, come before every close of a channel and the return.     *)
C4_NotifyBeforeClose ==
    /\ (SourceFailed /\ pc = "notify") => Sends = {} /\ Closes = {}
    /\ (SourceFailed /\ ~CleanClose /\ pc \in {"ack", "done"}) =>
          /\ Cardinality(Sends) = 1
          /\ \A i \in Sends :
                /\ log[i].on = "source"
                /\ log[i].msg = [Success |-> FALSE, Message |-> cbErr]
                /\ log[i].conn = "open"
                /\ \A j \in Closes \cup Events("return") : i < j
                /\ \A k \in Reads : i < k /\ \A j \in Closes \cup Events("return") : k < j
    /\ (SourceFailed /\ ~CleanClose /\ Returned) =>
          \A ch \in Required(s.fields) :
              \E j \in Closes : log[j].ch = ch /\ \A i \in Sends : i < j

\* A failed transfer, notified and acknowledged, after which Do returned.
C4_Witness ==
    /\ SourceFailed /\ Returned /\ cbErr = <<"transfer failed">>
    /\ \E k \in Reads : log[k].outcome = "message"

(* C5: on the source, when the transfer callback's error has a websocket     *)
(* close error anywhere in its chain, no control message is sent and no      *)
(* acknowledgment is read; Do returns the error wrapped with "Failed         *)
(* migration on source".                                                     *)
C5_CloseErrorNotNotified ==
    (SourceFailed /\ CleanClose) =>
        /\ Sends = {} /\ Reads = {}
        /\ pc \in {"notify", "done"}
        /\ Returned => ret = SourceError

\* The callback returned a close error wrapped in another error; Do returned.
C5_Witness ==
    /\ SourceFailed /\ Returned
    /\ cbErr = <<"read control", CloseError>>

(* C6: on the source, Do returns after a failed transfer the callback's      *)
(* error wrapped with "Failed migration on source", whatever the send and    *)
(* the read of the acknowledgment did; the acknowledgment is read at most    *)
(* once, and only right after a send that succeeded.                         *)
C6_TransferErrorReturned ==
    /\ (SourceFailed /\ Returned) => ret = SourceError
    /\ session = "source" =>
          /\ Cardinality(Reads) <= 1
          /\ \A k \in Reads : k > 1 /\ log[k - 1].ev = "send" /\ log[k - 1].ok
          /\ (\E i \in Sends : ~log[i].ok) => Reads = {}

\* The peer never acknowledged: the read timed out, and Do returned.
C6_Witness ==
    /\ SourceFailed /\ Returned
    /\ \E k \in Reads : log[k].outcome = "timeout"

\* The dials of the run, in order.
Dials == SelectSeq(log, LAMBDA e : e.ev = "dial")

Pull == session = "sink" /\ ~c.push

(* C7: in pull mode the sink dials control, then filesystem, then            *)
(* live-state: each dial follows the success of the one before it, the       *)
(* live-state dial is made only if src is live and the instance is a         *)
(* container, and a failed dial is followed by no dial and no receive        *)
(* callback.                                                                 *)
C7_DialOrder ==
    Pull =>
        /\ Len(Dials) <= Len(Channels)
        /\ \A i \in 1..Len(Dials) :
              /\ Dials[i].ch = Channels[i]
              /\ i > 1 => Dials[i - 1].ok
              /\ Dials[i].ch = "criu" => c.src.live /\ c.src.instance.type = Container
        /\ \A i \in Events("dial") :
              ~log[i].ok => \A j \in DOMAIN log :
                               j > i => log[j].ev \notin {"dial", "MigrateReceive"}
        /\ (pc = "dialCriu" \/ Has("MigrateReceive")) =>
              Len(Dials) >= 2 /\ Dials[1].ok /\ Dials[2].ok

\* All three channels dialed, the receive callback ran.
C7_Witness ==
    /\ Pull /\ Returned /\ Has("MigrateReceive")
    /\ Len(Dials) = 3

FailedDials == { i \in Events("dial") : ~log[i].ok }

DialError(ch) ==
    CASE ch = "control" -> Wrap("Failed connecting control sink socket", ErrDial)
      [] ch = "fs"      -> Wrap("Failed connecting filesystem sink socket", ErrDial)
      [] ch = "criu"    -> Wrap("Failed connecting CRIU sink socket", ErrDial)

(* C8: in pull mode, a failed filesystem or live-state dial is followed at   *)
(* once by one control message on the open control channel of src, with      *)
(* success=false and the wrapped dial error, sent before the control channel *)
(* is closed and before Do returns that error; a failed control dial returns *)
(* its wrapped error with no control message sent.                           *)
C8_DialFailureNotified ==
    Pull =>
        \A i \in FailedDials :
            /\ Returned /\ ret = DialError(log[i].ch)
            /\ log[i].ch = "control" => Sends = {} /\ log[i + 1].ev = "return"
            /\ log[i].ch # "control" =>
                  /\ Sends = {i + 1}
                  /\ log[i + 1].on = "src"
                  /\ log[i + 1].msg = [Success |-> FALSE, Message |-> DialError(log[i].ch)]
                  /\ log[i + 1].conn = "open"
                  /\ \E j \in Closes : log[j].ch = "control" /\ j > i + 1
                  /\ \A j \in Closes \cup Events("return") : j > i + 1

\* The filesystem dial failed after the control dial succeeded.
C8_Witness ==
    /\ Pull /\ Returned
    /\ \E i \in FailedDials : log[i].ch = "fs"
    /\ Sends # {}


-----------------------------------------------------------------------------
(* Construction.                                                             *)

Constructing == args.kind # "none"

IsContainer ==
    \/ args.kind = "source" /\ args.inst.type = Container
    \/ args.kind = "sink" /\ args.a.Instance.type = Container

\* The caller asked for a live migration.
LiveRequested ==
    \/ args.kind = "source" /\ args.stateful
    \/ args.kind = "sink" /\ args.a.Live

\* The session the constructor was building is live.
LiveSession ==
    \/ args.kind = "source" /\ args.stateful /\ args.inst.running
    \/ args.kind = "sink" /\ args.a.Push /\ args.a.Live
    \/ args.kind = "sink" /\ ~args.a.Push /\ (args.a.Live \/ "criu" \in DOMAIN args.a.Secrets)

\* The constructor got as far as its checkpoint-tool check: the secrets before
\* it were generated (source, push sink) or supplied (pull sink).
ReachedCriuCheck ==
    \/ args.kind = "source" /\ args.env.randFailAt \notin {1, 2}
    \/ args.kind = "sink" /\ args.a.Push
          /\ args.env.randFailAt \notin (IF args.a.Live THEN {1, 2, 3} ELSE {1, 2})
    \/ args.kind = "sink" /\ ~args.a.Push /\ {"control", "fs"} \subseteq DOMAIN args.a.Secrets

ErrNoLiveMigration ==
    IF args.kind = "source" THEN ErrNoLiveMigrationSource ELSE ErrNoLiveMigrationTarget

NoSession ==
    /\ session = "none" /\ s = ZeroSource /\ c = ZeroSink
    /\ ~Has("Connect") /\ ~Has("dial")

\* C9 as claimed: liveness requested for a container without the checkpoint
\* tool always ends construction with the live-migration-unsupported error.
C9_Claimed ==
    /\ (Constructing /\ LiveRequested /\ IsContainer /\ ~args.env.criu) =>
          newErr = ErrNoLiveMigration /\ NoSession
    /\ (Constructing /\ (args.env.criu \/ ~IsContainer)) =>
          newErr \notin {ErrNoLiveMigrationSource, ErrNoLiveMigrationTarget}

(* C9: when the session under construction is live (source: stateful was     *)
(* requested and the instance is running; push sink: live was requested;     *)
(* pull sink: live was requested or a live-state secret was supplied), the   *)
(* instance is a container, the checkpoint tool is absent and construction   *)
(* reaches the tool check (the secrets before it were generated or           *)
(* supplied), construction fails with ErrNoLiveMigrationSource on the        *)
(* source and ErrNoLiveMigrationTarget on the sink and returns no session,   *)
(* so no channel is ever created; with the tool present, or for an instance  *)
(* that is no container, neither error is returned.                          *)
C9_LiveUnsupported ==
    /\ (Constructing /\ LiveSession /\ IsContainer /\ ~args.env.criu /\ ReachedCriuCheck) =>
          newErr = ErrNoLiveMigration /\ NoSession
    /\ (Constructing /\ (args.env.criu \/ ~IsContainer)) =>
          newErr \notin {ErrNoLiveMigrationSource, ErrNoLiveMigrationTarget}
    /\ newErr # Nil => NoSession /\ pc = "rejected"

\* A pull sink made live by the live-state secret alone, refused for want of the tool.
C9_Witness ==
    /\ args.kind = "sink" /\ ~args.a.Push /\ ~args.a.Live
    /\ "criu" \in DOMAIN args.a.Secrets
    /\ newErr = ErrNoLiveMigrationTarget /\ pc = "rejected"

(* C10: the checkpoint tool is looked up only when the session under         *)
(* construction is live and the instance is a container.                     *)
C10_ToolConsultedOnlyWhenLive ==
    lookups > 0 => LiveSession /\ IsContainer


-----------------------------------------------------------------------------
(* C11: a source session that was constructed has a control and a            *)
(* filesystem secret; it is live exactly when stateful was requested and the *)
(* instance is running; it has a live-state secret exactly when it is live   *)
(* and the instance is a container, and then the checkpoint tool is present. *)
C11_SourceSessionShape ==
    session = "source" =>
        /\ s.fields.controlSecret # 0 /\ s.fields.fsSecret # 0
        /\ s.fields.live = (args.stateful /\ args.inst.running)
        /\ (s.fields.criuSecret # 0) = (s.fields.live /\ args.inst.type = Container)
        /\ s.fields.criuSecret # 0 => args.env.criu
        /\ s.fields.instance = args.inst

\* A stateful session for a stopped container: built, not live, no live-state secret.
C11_Witness ==
    /\ session = "source" /\ args.stateful /\ ~args.inst.running
    /\ args.inst.type = Container /\ s.fields.criuSecret = 0

PullArgs == args.kind = "sink" /\ ~args.a.Push

Supplied(ch) == ch \in DOMAIN args.a.Secrets

(* C12: construction of a pull sink fails with "Missing control secret"      *)
(* when the control secret is not supplied and with "Missing fs secret" when *)
(* the filesystem secret is not; with both supplied it fails only by the     *)
(* checkpoint-tool check, and the session it returns carries the supplied    *)
(* secrets and is live when live was requested or a live-state secret was    *)
(* supplied, the secret alone being enough.                                  *)
C12_PullConstruction ==
    PullArgs =>
        /\ ~Supplied("control") => newErr = ErrMissingControl /\ session = "none"
        /\ (Supplied("control") /\ ~Supplied("fs")) =>
              newErr = ErrMissingFs /\ session = "none"
        /\ (Supplied("control") /\ Supplied("fs")) =>
              /\ newErr \in {Nil, ErrNoLiveMigrationTarget}
              /\ (newErr = Nil) = (session = "sink")
              /\ (newErr # Nil) =
                    (/\ args.a.Instance.type = Container /\ ~args.env.criu
                     /\ (args.a.Live \/ Supplied("criu")))
        /\ session = "sink" =>
              /\ c.src.live = (args.a.Live \/ Supplied("criu"))
              /\ c.src.controlSecret = args.a.Secrets["control"]
              /\ c.src.fsSecret = args.a.Secrets["fs"]
              /\ c.src.criuSecret = IF Supplied("criu") THEN args.a.Secrets["criu"] ELSE 0

\* Live was not requested; the supplied live-state secret made the session live.
C12_Witness ==
    /\ PullArgs /\ session = "sink"
    /\ ~args.a.Live /\ Supplied("criu") /\ c.src.live

Receives == Events("MigrateReceive")

(* C13: a push sink constructed with live requested has three generated      *)
(* secrets, different from one another, and dest live; the liveness flag     *)
(* handed to the receive callback is dest's in push mode and src's in pull   *)
(* mode.                                                                     *)
C13_SinkLiveness ==
    /\ (session = "sink" /\ c.push /\ args.a.Live) =>
          /\ c.dest.live
          /\ Cardinality({c.dest.controlSecret, c.dest.fsSecret, c.dest.criuSecret} \ {0}) = 3
          /\ args.a.Instance.type = Container => args.env.criu
    /\ (session = "sink" /\ c.push) => c.dest.live = args.a.Live
    /\ session = "sink" =>
          \A i \in Receives :
              log[i].args.Live = (IF c.push THEN c.dest.live ELSE c.src.live)

\* A live push sink whose channels connected: the callback ran with Live set.
C13_Witness ==
    /\ session = "sink" /\ c.push /\ args.a.Live
    /\ \E i \in Receives : log[i].args.Live

MigrateSends == Events("MigrateSend")

(* C14: the source's Do invokes the transfer callback at most once, and      *)
(* exactly once when it has gone past the wait with the channels connected,  *)
(* with Snapshots the negation of instanceOnly, Live the session's liveness  *)
(* and AllowInconsistent the constructor's flag; when the callback returned  *)
(* nil, Do returns nil with the session's channels closed.                   *)
C14_TransferCall ==
    session = "source" =>
        /\ Cardinality(MigrateSends) <= 1
        /\ (MigrateSends # {}) = (Has("connected") /\ pc # "migrate")
        /\ \A i \in MigrateSends :
              /\ log[i].args.Snapshots = ~args.instanceOnly
              /\ log[i].args.Live = (args.stateful /\ args.inst.running)
              /\ log[i].args.Live = s.fields.live
              /\ log[i].args.AllowInconsistent = args.allowInconsistent
              /\ log[i].args.DataConn = "open"
              /\ (log[i].err = Nil) =>
                    /\ Returned /\ ret = Nil
                    /\ \A ch \in Required(s.fields) : Conn(s.fields, ch) = "closed"

\* Not live, snapshots included: the callback got Snapshots=true, Live=false,
\* returned nil, and Do returned nil.
C14_Witness ==
    /\ session = "source" /\ ~args.stateful /\ ~args.instanceOnly
    /\ Returned /\ ret = Nil
    /\ \E i \in MigrateSends : log[i].args.Snapshots /\ ~log[i].args.Live

\* The secrets of the generated fields that are present, channel by channel.
GeneratedFields ==
    IF session = "source" THEN s.fields
    ELSE IF session = "sink" /\ c.push THEN c.dest
    ELSE ZeroFields

(* C15: the generated secrets of a session that are present are different    *)
(* from one another, and none of them was generated for an earlier session.  *)
C15_SecretsDistinct ==
    /\ \A ch1, ch2 \in {"control", "fs", "criu"} :
          (ch1 # ch2 /\ Secret(GeneratedFields, ch1) # 0) =>
              Secret(GeneratedFields, ch1) # Secret(GeneratedFields, ch2)
    /\ \A ch \in {"control", "fs", "criu"} : Secret(GeneratedFields, ch) \notin issued

\* A session with three secrets after a session that had its own.
C15_Witness ==
    /\ issued # {}
    /\ \A ch \in {"control", "fs", "criu"} : Secret(GeneratedFields, ch) # 0


-----------------------------------------------------------------------------
\* The events of kind ev that come before position i of the log.
Earlier(ev, i) == { j \in Events(ev) : j < i }

Push == session = "sink" /\ c.push

(* C16: the transfer callback starts only when the channels are ready.  On   *)
(* the source the signal fired and Do saw it before the instance is marked   *)
(* with the operation, the marking comes right before MigrateSend and never  *)
(* happens in a run that timed out; in a push sink the signal fired and Do   *)
(* saw it before MigrateReceive; in a pull sink every required dial          *)
(* succeeded before MigrateReceive.  The channels handed over are open.      *)
C16_ReadyBeforeTransfer ==
    /\ session = "source" =>
          /\ \A i \in Events("SetOperation") :
                /\ \E k \in Earlier("connected", i) : Earlier("signal", k) # {}
                /\ i + 1 \in MigrateSends
          /\ \A m \in MigrateSends :
                /\ m > 1 /\ log[m - 1].ev = "SetOperation"
                /\ log[m].args.DataConn = "open"
                /\ (s.fields.live /\ s.fields.instance.type = Container) =>
                      log[m].args.LiveConn = "open"
          /\ ret = ErrTimeout => ~Has("SetOperation")
    /\ Push =>
          \A r \in Receives :
              /\ \E k \in Earlier("connected", r) : Earlier("signal", k) # {}
              /\ log[r].args.DataConn = "open"
              /\ (c.dest.live /\ c.src.instance.type = Container) =>
                    log[r].args.LiveConn = "open"
    /\ Pull =>
          \A r \in Receives :
              /\ Len(Dials) = (IF c.src.live /\ c.src.instance.type = Container
                               THEN 3 ELSE 2)
              /\ \A i \in Events("dial") : i < r /\ log[i].ok
              /\ log[r].args.DataConn = "open"
              /\ (c.src.live /\ c.src.instance.type = Container) =>
                    log[r].args.LiveConn = "open"

\* A live container source: three channels connected, then the marking, then
\* the callback.
C16_Witness ==
    /\ session = "source" /\ s.fields.criuSecret # 0
    /\ \E m \in MigrateSends : log[m].args.LiveConn = "open"

\* The callback events of the run that returned nil.
Succeeded == { i \in Callbacks : log[i].err = Nil }

(* C17: Do returns nil exactly when the transfer callback was invoked and    *)
(* returned nil.  A callback error comes back wrapped with "Failed migration *)
(* on source" on the source and "Failed migration on target" on the sink; a  *)
(* timeout or a failed dial comes back as an error.                          *)
C17_NilOnlyOnSuccess ==
    Returned =>
        /\ (ret = Nil) = (Succeeded # {})
        /\ \A i \in Callbacks :
              log[i].err # Nil =>
                  ret = Wrap(IF session = "source" THEN "Failed migration on source"
                                                   ELSE "Failed migration on target",
                             log[i].err)
        /\ (Has("timeout") \/ FailedDials # {}) => ret # Nil /\ Callbacks = {}
        /\ Cardinality(Callbacks) <= 1

\* The receive callback failed; the sink returned its error wrapped.
C17_Witness ==
    /\ session = "sink" /\ Returned
    /\ ret = <<"Failed migration on target", "transfer failed">>

(* C18: every run of the source's and of the sink's Do returns, whether or   *)
(* not a peer connects or acknowledges; Do waits at most once for the        *)
(* signal and at most once for the acknowledgment.                           *)
C18_DoReturns ==
    /\ (session \in {"source", "sink"}) ~> Returned
    /\ [](/\ Cardinality(Events("timeout")) + Cardinality(Events("connected")) <= 1
          /\ Cardinality(Reads) <= 1)
    /\ [][Returned => UNCHANGED vars]_vars

\* No peer ever connected; Do returned.
C18_Witness ==
    /\ Passive /\ Returned /\ ~Has("Connect")

NoHandle(f) == \A ch \in {"control", "fs", "criu"} : Conn(f, ch) = "nil"

(* C19: a sink uses the channel state of one side.  In push mode it waits    *)
(* for the signal, makes no dial, leaves every channel handle of src unset   *)
(* and hands dest's control functions and channels to the callback; in pull  *)
(* mode it has no signal to wait for, leaves every channel handle of dest    *)
(* unset and hands src's control functions and dialed channels to it.        *)
C19_OneSide ==
    /\ Push =>
          /\ ~Has("dial") /\ NoHandle(c.src)
          /\ pc \in {"wait", "receive", "done"}
          /\ \A r \in Receives :
                /\ Has("connected")
                /\ log[r].args.ControlSend = "dest" /\ log[r].args.ControlReceive = "dest"
                /\ log[r].args.LiveSide = "dest"
                /\ Closed(log[r].args.DataConn) = c.dest.fsConn
                /\ Closed(log[r].args.LiveConn) = c.dest.criuConn
    /\ Pull =>
          /\ ~Has("timeout") /\ ~Has("connected") /\ ~Has("signal") /\ ~Has("Connect")
          /\ c.allConnected = "nil" /\ NoHandle(c.dest)
          /\ pc # "wait"
          /\ \A r \in Receives :
                /\ log[r].args.ControlSend = "src" /\ log[r].args.ControlReceive = "src"
                /\ log[r].args.LiveSide = "src"
                /\ Closed(log[r].args.DataConn) = c.src.fsConn
                /\ Closed(log[r].args.LiveConn) = c.src.criuConn

\* A push sink whose callback ran on dest's channels, src untouched.
C19_Witness ==
    /\ Push /\ Returned /\ Receives # {}
    /\ c.dest.fsConn = "closed" /\ c.src.fsConn = "nil"

(* C20: in pull mode every dial of the live-state endpoint presents a        *)
(* live-state secret that was supplied: never the empty secret.              *)
C20_LiveDialHasSecret ==
    Pull =>
        \A i \in Events("dial") :
            log[i].ch = "criu" => log[i].secret # 0 /\ Supplied("criu")

====
